---- MODULE Spec2Model ----
(***************************************************************************)
(* Model of src/script.js: the contact-form pipeline (field naming,        *)
(* validation, localStorage append, feedback, reset) and the testimonial   *)
(* carousel.                                                               *)
(*                                                                         *)
(* A JavaScript string is a sequence of one-character strings, so that     *)
(* trim(), .length and the e-mail regular expression are computed on the   *)
(* characters.  An object with string keys is a function whose domain is   *)
(* its set of keys.                                                        *)
(***************************************************************************)
EXTENDS Integers, Sequences, FiniteSets, TLC

VARIABLES
    \* ---- the Field Normalizer run on its own (SpecNormalizer)
    inputs,      \* the name attribute of each input, in document order
    inputs0,     \* the names the inputs had in the markup
    passes,      \* how many times the naming loop has run over them
    \* ---- the validator run on its own (SpecValidator)
    obj,         \* the mapping of trimmed field values
    errors,      \* the error list the validation produced
    vpc,         \* "input" before the validation ran, "validated" after
    \* ---- one page with its contact forms (Spec)
    value,       \* value[f][p]: what input p of form f holds now
    toast,       \* toast[f]: the .form-toast element of form f
    store,       \* localStorage's item under 'codlab_contacts_v1'
    clock,       \* the wall clock new Date() reads
    nsubmit,     \* submit events handled so far
    ev,          \* what the last submit handler did
    store0,      \* the item as the page found it
    accepted,    \* the accepted submits: trimmed fields and time of each
    faulted,     \* whether localStorage has thrown in this page
    \* ---- two tabs sharing the key (SpecTabs; store, store0 as above)
    tabpc,       \* tabpc[t]: "idle", or "saving" between the read and the write
    tabAll,      \* tabAll[t]: the array tab t parsed
    tabEntry,    \* tabEntry[t]: the entry tab t built
    tabCount,    \* tabCount[t]: submits tab t has finished
    log,         \* the reads and writes of the key, in the order they happened
    \* ---- the testimonial carousel (SpecCarousel)
    idx,         \* the current card
    total,       \* cards.length
    autoplay,    \* the interval id the variable autoplay holds
    active,      \* the interval ids that are set and not cleared
    nextId,      \* the id the next setInterval returns
    inside,      \* whether the pointer is over the wrapper
    entered,     \* whether a mouseenter was handled since the last mouseleave
    tickInHover  \* whether a timer moved the carousel while entered

normVars == <<inputs, inputs0, passes>>
valVars  == <<obj, errors, vpc>>
pageVars == <<value, toast, store, clock, nsubmit, ev, store0, accepted, faulted>>
tabVars  == <<tabpc, tabAll, tabEntry, tabCount, log>>
carVars  == <<idx, total, autoplay, active, nextId, inside, entered, tickInHover>>
vars     == <<inputs, inputs0, passes, obj, errors, vpc,
              value, toast, store, clock, nsubmit, ev, store0, accepted, faulted,
              tabpc, tabAll, tabEntry, tabCount, log,
              idx, total, autoplay, active, nextId, inside, entered, tickInHover>>

(***************************************************************************)
(* Bounds of the model.                                                    *)
(***************************************************************************)
MaxInputs   == 6    \* inputs in a form handed to the naming loop
MaxNameLen  == 1    \* characters of a name value given to the validator
MaxEmailLen == 5    \* characters of an email value given to the validator
MaxPasses   == 2    \* runs of the naming loop over one list
MaxSubmits  == 2    \* submit events in one page
MaxClock    == 1    \* the wall clock stops advancing here
MaxTabSubmits == 2  \* accepted submits of one tab
MaxCards    == 4    \* testimonial cards in the wrapper
MaxTimers   == 3    \* setInterval calls of the carousel

(***************************************************************************)
(* Strings.                                                                *)
(***************************************************************************)
WhiteSpace == {" "}

Rep(c, n) == [i \in 1..n |-> c]

RECURSIVE TrimStart(_)
TrimStart(s) ==
    IF s # << >> /\ Head(s) \in WhiteSpace THEN TrimStart(Tail(s)) ELSE s

RECURSIVE TrimEnd(_)
TrimEnd(s) ==
    IF s # << >> /\ s[Len(s)] \in WhiteSpace
    THEN TrimEnd(SubSeq(s, 1, Len(s) - 1))
    ELSE s

Trim(s) == TrimEnd(TrimStart(s))

StringsUpTo(alphabet, n) == UNION {[1..k -> alphabet] : k \in 0..n}

(***************************************************************************)
(* Field Normalizer: the naming loop of the form setup.                    *)
(***************************************************************************)
names == <<"name", "email", "phone", "instagram", "message">>

\* `field${i}` for the zero-based index i
FieldPlaceholder(i) == "field" \o ToString(i)

\* names[i] || `field${i}`, i zero-based
PositionalName(i) ==
    IF i + 1 \in DOMAIN names /\ names[i + 1] # ""
    THEN names[i + 1]
    ELSE FieldPlaceholder(i)

NameAlwaysOverwritten(inp, i) == PositionalName(i)

\* if (!inp.name) inp.name = names[i] || `field${i}`
NameInput(inp, i) == IF inp = "" THEN PositionalName(i) ELSE inp

\* inputs.forEach((inp, i) => ...), over the list in document order
Normalize(list) == [p \in DOMAIN list |-> NameInput(list[p], p - 1)]

(***************************************************************************)
(* Validator.                                                              *)
(***************************************************************************)
PhoneMin   == 6
MessageMin == 10

ErrName    == "Nama wajib diisi."
ErrEmail   == "Email tidak valid."
ErrPhone   == "Nomor telepon tampak terlalu pendek."
ErrMessage == "Pesan minimal 10 karakter."

\* [^\s@]
LocalChar(c) == c \notin WhiteSpace /\ c # "@"

(* /^[^\s@]+@[^\s@]+\.[^\s@]+$/ as the automaton the pattern denotes:      *)
(* 0 -A-> 1 -A-> 1 -@-> 2 -A-> 3 -A-> 3 -.-> 4 -A-> 5 -A-> 5, accepting 5  *)
(* (A is [^\s@], which includes the dot).                                  *)
RegexStep(q, c) ==
    UNION {
        IF s = 0 THEN (IF LocalChar(c) THEN {1} ELSE {})
        ELSE IF s = 1 THEN (IF LocalChar(c) THEN {1} ELSE {})
                           \cup (IF c = "@" THEN {2} ELSE {})
        ELSE IF s = 2 THEN (IF LocalChar(c) THEN {3} ELSE {})
        ELSE IF s = 3 THEN (IF LocalChar(c) THEN {3} ELSE {})
                           \cup (IF c = "." THEN {4} ELSE {})
        ELSE IF s = 4 THEN (IF LocalChar(c) THEN {5} ELSE {})
        ELSE (IF LocalChar(c) THEN {5} ELSE {})
        : s \in q }

RECURSIVE RegexRun(_, _)
RegexRun(q, s) ==
    IF s = << >> THEN q ELSE RegexRun(RegexStep(q, Head(s)), Tail(s))

\* /.../.test(s)
EmailRegexTest(s) == 5 \in RegexRun({0}, s)

Has(o, k) == k \in DOMAIN o

\* !obj.k : the key is missing or its value is the empty string
Falsy(o, k) == ~Has(o, k) \/ o[k] = << >>

PhoneShortOffByOne(o) == Falsy(o, "phone") \/ Len(o["phone"]) <= PhoneMin

MessageNeverFails(o) == FALSE

NameFails(o)    == Falsy(o, "name")
EmailFails(o)   == Falsy(o, "email") \/ ~EmailRegexTest(o["email"])
PhoneFails(o)   == Falsy(o, "phone") \/ Len(o["phone"]) < PhoneMin
MessageFails(o) == Falsy(o, "message") \/ Len(o["message"]) < MessageMin

\* const errors = []; four conditional errors.push(...)
Validation(o) ==
    LET e1 == IF NameFails(o) THEN <<ErrName>> ELSE << >>
        e2 == IF EmailFails(o) THEN Append(e1, ErrEmail) ELSE e1
        e3 == IF PhoneFails(o) THEN Append(e2, ErrPhone) ELSE e2
        e4 == IF MessageFails(o) THEN Append(e3, ErrMessage) ELSE e3
    IN  e4

(***************************************************************************)
(* SpecNormalizer: the naming loop applied, again and again, to every      *)
(* list of input names of up to MaxInputs inputs.                          *)
(***************************************************************************)
MarkupNames == {"", "email", "message", "extra"}

NormOff == inputs = << >> /\ inputs0 = << >> /\ passes = 0
ValOff  == obj = << >> /\ errors = << >> /\ vpc = "off"
PageOff ==
    /\ value = << >> /\ toast = << >> /\ store = << >> /\ clock = 0
    /\ nsubmit = 0 /\ ev = << >> /\ store0 = << >> /\ accepted = << >>
    /\ faulted = FALSE
TabsOff ==
    /\ tabpc = << >> /\ tabAll = << >> /\ tabEntry = << >> /\ tabCount = << >>
    /\ log = << >>
CarOff ==
    /\ idx = 0 /\ total = 0 /\ autoplay = 0 /\ active = {} /\ nextId = 0
    /\ inside = FALSE /\ entered = FALSE /\ tickInHover = FALSE

InitNormalizer ==
    /\ inputs0 \in UNION {[1..n -> MarkupNames] : n \in 0..MaxInputs}
    /\ inputs = inputs0
    /\ passes = 0
    /\ ValOff /\ PageOff /\ TabsOff /\ CarOff

NormalizeInputs ==
    /\ passes < MaxPasses
    /\ inputs' = Normalize(inputs)
    /\ passes' = passes + 1
    /\ UNCHANGED <<inputs0, valVars, pageVars, tabVars, carVars>>

NextNormalizer == NormalizeInputs

SpecNormalizer == InitNormalizer /\ [][NextNormalizer]_vars

(* C9: the Field Normalizer is idempotent.  After one run of the naming    *)
(* loop, and still after a second, every input that had a name keeps it,   *)
(* every unnamed input at zero-based position i < 5 has the canonical name *)
(* at index i and every unnamed input beyond has the placeholder field<i>; *)
(* a further run changes nothing.                                          *)
C9_NormalizerIdempotent ==
    passes >= 1 =>
        /\ DOMAIN inputs = DOMAIN inputs0
        /\ \A p \in DOMAIN inputs0 :
              inputs[p] =
                IF inputs0[p] # "" THEN inputs0[p]
                ELSE IF p <= 5
                     THEN <<"name", "email", "phone", "instagram", "message">>[p]
                     ELSE "field" \o ToString(p - 1)
        /\ Normalize(inputs) = inputs

\* two runs over six inputs: unnamed ones in and beyond the canonical list,
\* and a named one
C9_Witness ==
    /\ passes = 2
    /\ Len(inputs0) = 6
    /\ inputs0[1] = "" /\ inputs0[2] = "extra" /\ inputs0[6] = ""
    /\ inputs[1] = "name" /\ inputs[2] = "extra" /\ inputs[6] = "field5"

(***************************************************************************)
(* SpecValidator: the validation applied to every mapping of trimmed       *)
(* values within the bounds; a field may also be missing.                  *)
(***************************************************************************)
Missing == <<"missing">>

Trimmed(S) == {s \in S : Trim(s) = s}

NameValues    == Trimmed(StringsUpTo({"a", " "}, MaxNameLen))
EmailValues   == Trimmed(StringsUpTo({"a", "@", ".", " "}, MaxEmailLen))
PhoneValues   ==
    {Rep("1", n) : n \in {0} \cup ((PhoneMin - 1)..(PhoneMin + 1))}
MessageValues ==
    {Rep("x", n) : n \in {0} \cup ((MessageMin - 1)..(MessageMin + 1))}
InstagramValues == {<<"@", "a">>}

\* the object holding the keys whose value is not Missing
MkObj(n, e, p, i, m) ==
    LET all == [name |-> n, email |-> e, phone |-> p, instagram |-> i,
                message |-> m]
        keys == {k \in DOMAIN all : all[k] # Missing}
    IN  [k \in keys |-> all[k]]

InitValidator ==
    /\ \E n \in NameValues \cup {Missing}, e \in EmailValues \cup {Missing},
          p \in PhoneValues \cup {Missing}, m \in MessageValues \cup {Missing},
          i \in InstagramValues \cup {Missing} :
            obj = MkObj(n, e, p, i, m)
    /\ errors = << >>
    /\ vpc = "input"
    /\ NormOff /\ PageOff /\ TabsOff /\ CarOff

Validate ==
    /\ vpc = "input"
    /\ errors' = Validation(obj)
    /\ vpc' = "validated"
    /\ UNCHANGED <<obj, normVars, pageVars, tabVars, carVars>>

NextValidator == Validate

SpecValidator == InitValidator /\ [][NextValidator]_vars

\* the four rules as the data model states them
RuleNameOK(o)    == "name" \in DOMAIN o /\ Len(o["name"]) > 0
RuleEmailOK(o)   ==
    /\ "email" \in DOMAIN o
    /\ LET s == o["email"] IN
         \E i, j \in 1..Len(s) :
            /\ 1 < i /\ i + 1 < j /\ j < Len(s)
            /\ s[i] = "@" /\ s[j] = "."
            /\ \A k \in (1..Len(s)) \ {i} : s[k] # " " /\ s[k] # "@"
RulePhoneOK(o)   == "phone" \in DOMAIN o /\ Len(o["phone"]) >= 6
RuleMessageOK(o) == "message" \in DOMAIN o /\ Len(o["message"]) >= 10

RuleFails(o) ==
    <<~RuleNameOK(o), ~RuleEmailOK(o), ~RulePhoneOK(o), ~RuleMessageOK(o)>>

RuleMessages == <<ErrName, ErrEmail, ErrPhone, ErrMessage>>

\* the messages of the failing rules, in the order name, email, phone, message
ExpectedErrors(o) ==
    LET fails == RuleFails(o)
        failing == SelectSeq(<<1, 2, 3, 4>>, LAMBDA r : fails[r])
    IN  [x \in DOMAIN failing |-> RuleMessages[failing[x]]]

(* C2: for every mapping of trimmed values the error list is exactly the   *)
(* messages of the failing rules in the order name, email, phone, message; *)
(* it is empty iff all four rules pass, and it holds the name-required     *)
(* message whenever name is missing or empty.                              *)
C2_ValidatorErrors ==
    vpc = "validated" =>
        /\ errors = ExpectedErrors(obj)
        /\ (errors = << >>) <=>
              (RuleNameOK(obj) /\ RuleEmailOK(obj) /\ RulePhoneOK(obj)
                 /\ RuleMessageOK(obj))
        /\ ~RuleNameOK(obj) => \E x \in DOMAIN errors : errors[x] = ErrName

\* name missing, a matching email, a phone of exactly five characters
C2_Witness ==
    /\ vpc = "validated"
    /\ "name" \notin DOMAIN obj
    /\ "email" \in DOMAIN obj /\ obj["email"] = <<"a", "@", "a", ".", "a">>
    /\ "phone" \in DOMAIN obj /\ Len(obj["phone"]) = 5
    /\ "message" \in DOMAIN obj /\ Len(obj["message"]) = 10
    /\ errors = <<ErrName, ErrPhone>>

(***************************************************************************)
(* The page: contact forms, their toast, localStorage.                     *)
(***************************************************************************)
Forms == {1, 2}

(* The markup of each form: the name attribute and the default value of    *)
(* its inputs, in document order.  Form 1 is the expected form, five       *)
(* unnamed inputs.  Form 2 has a pre-filled instagram input and a sixth    *)
(* input that the markup names submittedAt.                                *)
Markup(f) ==
    IF f = 1
    THEN [p \in 1..5 |-> [name |-> "", default |-> << >>]]
    ELSE [p \in 1..6 |->
            [name    |-> IF p = 6 THEN "submittedAt" ELSE "",
             default |-> IF p = 4 THEN <<"@">> ELSE << >>]]

\* the names the inputs have once the setup ran its naming loop
NamedInputs ==
    [f \in Forms |-> Normalize([p \in DOMAIN Markup(f) |-> Markup(f)[p].name])]

InputNames(f) == NamedInputs[f]

DefaultValues == [f \in Forms |-> [p \in DOMAIN Markup(f) |-> Markup(f)[p].default]]

\* the default value of each input of form f
Defaults(f) == DefaultValues[f]

\* the toast area the setup creates: display:none, no text
NewToast == [display |-> "none", background |-> "", color |-> "", textContent |-> ""]

RECURSIVE Join(_, _)
\* errors.join(sep)
Join(list, sep) ==
    IF list = << >> THEN ""
    ELSE IF Len(list) = 1 THEN list[1]
    ELSE list[1] \o sep \o Join(Tail(list), sep)

ErrorToast(errs) ==
    [display |-> "block", background |-> "#fff6f6", color |-> "#8a1f1f",
     textContent |-> "Gagal kirim: " \o Join(errs, " ")]

SuccessText ==
    "Terima kasih! Pesanmu telah tersimpan. Tim kami akan menghubungi segera."

SuccessToast ==
    [display |-> "block", background |-> "#f0fff4", color |-> "#0b6b2f",
     textContent |-> SuccessText]

(* for (const [k,v] of fdata.entries()) obj[k] = v.trim(): one entry per   *)
(* input, in document order, a later entry of the same name overwriting    *)
(* an earlier one.                                                         *)
BuildObj(f, vals) ==
    LET ns   == InputNames(f)
        keys == {ns[p] : p \in DOMAIN ns}
        last(k) == CHOOSE p \in DOMAIN ns :
                      ns[p] = k /\ \A r \in DOMAIN ns : ns[r] = k => r <= p
    IN  [k \in keys |-> Trim(vals[last(k)])]

Digits == <<"0", "1", "2", "3", "4", "5", "6", "7", "8", "9">>

(* new Date().toISOString(): a text of fixed width whose order as text is  *)
(* the order of the instants (YYYY-MM-DDTHH:mm:ss.sssZ in the browser, two *)
(* digits here).                                                           *)
ToISOString(t) == <<Digits[((t \div 10) % 10) + 1], Digits[(t % 10) + 1]>>

\* Object.assign(target, source): the source's keys overwrite the target's
ObjectAssign(target, source) ==
    [k \in DOMAIN target \cup DOMAIN source |->
        IF k \in DOMAIN source THEN source[k] ELSE target[k]]

\* Object.assign({ submittedAt: new Date().toISOString() }, obj)
Entry(now, o) == ObjectAssign([submittedAt |-> ToISOString(now)], o)

(* localStorage's item: absent (getItem gives null), or a text.  A text is *)
(* the empty text, a text that is no JSON, or the JSON text of null, of an *)
(* object or of an array with its items.                                   *)
Absent       == [t |-> "absent", items |-> << >>]
TextOf(k, i) == [t |-> k, items |-> i]

\* JSON.parse(text): a SyntaxError on a text that is no JSON
JSONParse(text) ==
    IF text.t \in {"garbage", "empty"}
    THEN [ok |-> FALSE, k |-> "none", items |-> << >>]
    ELSE IF text.t = "absent"      \* JSON.parse(null) is null
    THEN [ok |-> TRUE, k |-> "null", items |-> << >>]
    ELSE [ok |-> TRUE, k |-> text.t, items |-> text.items]

\* JSON.stringify(v)
JSONStringify(v) == TextOf(v.k, v.items)

Faults == {"none", "getItem", "setItem"}

OrDefaultMissing(item) == item

\* localStorage.getItem(key) || '[]'
OrDefault(item) ==
    IF item.t \in {"absent", "empty"} THEN TextOf("array", << >>) ELSE item

\* const all = JSON.parse(localStorage.getItem(key) || '[]')
ReadAll(item, fault) ==
    IF fault = "getItem"
    THEN [raised |-> TRUE, k |-> "none", items |-> << >>]
    ELSE LET parsed == JSONParse(OrDefault(item))
         IN  [raised |-> ~parsed.ok, k |-> parsed.k, items |-> parsed.items]

WriteAllReread(item, all, entry, fault) ==
    IF fault = "setItem" THEN [raised |-> TRUE, item |-> item]
    ELSE [raised |-> FALSE,
          item   |-> TextOf("array", Append(IF item.t = "array" THEN item.items ELSE << >>,
                                            entry))]

\* all.push(entry); localStorage.setItem(key, JSON.stringify(all))
WriteAll(item, all, entry, fault) ==
    IF all.k # "array" THEN [raised |-> TRUE, item |-> item]
    ELSE IF fault = "setItem" THEN [raised |-> TRUE, item |-> item]
    ELSE [raised |-> FALSE,
          item   |-> JSONStringify([k |-> "array", items |-> Append(all.items, entry)])]

\* the body of the try block
TryBody(item, entry, fault) ==
    LET all == ReadAll(item, fault)
    IN  IF all.raised THEN [raised |-> TRUE, item |-> item]
        ELSE WriteAll(item, all, entry, fault)

SaveUncaught(item, entry, fault) ==
    LET r == TryBody(item, entry, fault)
    IN  [item |-> r.item, escaped |-> r.raised]

\* try { ... } catch (err) { /* ignore storage errors */ }
Save(item, entry, fault) ==
    LET r == TryBody(item, entry, fault)
    IN  [item |-> r.item, escaped |-> FALSE]

ResetSkipped(f, vals) == vals

\* form.reset(): every input back to its default value
ResetForm(f, vals) == Defaults(f)

NoEntry == << >>

(* The submit handler of form f, from the state it finds to the state it   *)
(* leaves: the inputs' values, the toast, the stored item, and a record of *)
(* what it did.                                                            *)
SubmitHandler(f, vals, tst, item, now, fault) ==
    LET o    == BuildObj(f, vals)
        errs == Validation(o)
        e    == Entry(now, o)
        sv   == Save(item, e, fault)
        did  == [form |-> f, prevented |-> TRUE, errors |-> errs,
                 fault |-> "none", escaped |-> FALSE, sparkles |-> FALSE,
                 outcome |-> "rejected", entry |-> NoEntry]
    IN  IF errs # << >>
        THEN [value |-> vals, toast |-> ErrorToast(errs), item |-> item, ev |-> did]
        ELSE IF sv.escaped
        THEN [value |-> vals, toast |-> tst, item |-> sv.item,
              ev |-> [did EXCEPT !.fault = fault, !.escaped = TRUE,
                                 !.outcome = "threw", !.entry = e]]
        ELSE [value |-> ResetForm(f, vals), toast |-> SuccessToast, item |-> sv.item,
              ev |-> [did EXCEPT !.fault = fault, !.sparkles = TRUE,
                                 !.outcome = "accepted", !.entry = e]]

(* What the user may put in the inputs of a form.  In form 1: values that  *)
(* pass once trimmed, and values of which only the message fails, and only *)
(* once trimmed (ten characters typed, nine left).  In form 2: passing     *)
(* values, with a text typed into the submittedAt input.  An untouched     *)
(* form fails all four checks.                                             *)
Profiles(f) ==
    LET ana    == <<" ", "a", "n", "a", " ">>
        mail   == <<"a", "@", "m", ".", "c", "o">>
        phone  == <<"0", "8", "1", "2", "3", "4">>
        hello  == <<" ">> \o Rep("x", MessageMin)
        short  == Rep("x", MessageMin - 1) \o <<" ">>
    IN  IF f = 1
        THEN { <<ana, mail, phone, << >>, hello>>,
               <<ana, mail, phone, <<"@", "a">>, short>> }
        ELSE { <<ana, mail, phone, << >>, hello, <<"9", "9">> >> }

\* what the page may find under the key
InitialStores ==
    LET old == [name |-> <<"o">>, email |-> <<"o", "@", "o", ".", "o">>,
                phone |-> Rep("7", PhoneMin), instagram |-> << >>,
                message |-> Rep("o", MessageMin), submittedAt |-> ToISOString(0)]
    IN  { Absent, TextOf("empty", << >>), TextOf("garbage", << >>),
          TextOf("null", << >>), TextOf("object", << >>),
          TextOf("array", <<old>>) }

NoEvent ==
    [form |-> 0, prevented |-> FALSE, errors |-> << >>, fault |-> "none",
     escaped |-> FALSE, sparkles |-> FALSE, outcome |-> "none", entry |-> NoEntry]

Init ==
    /\ value = [f \in Forms |-> Defaults(f)]
    /\ toast = [f \in Forms |-> NewToast]
    /\ store \in InitialStores
    /\ store0 = store
    /\ clock = 0
    /\ nsubmit = 0
    /\ ev = NoEvent
    /\ accepted = << >>
    /\ faulted = FALSE
    /\ NormOff /\ ValOff /\ TabsOff /\ CarOff

\* the user fills the inputs of form f
Fill(f) ==
    /\ \E p \in Profiles(f) : value' = [value EXCEPT ![f] = p]
    /\ UNCHANGED <<toast, store, clock, nsubmit, ev, store0, accepted, faulted>>
    /\ UNCHANGED <<normVars, valVars, tabVars, carVars>>

\* time passes
Tick ==
    /\ clock < MaxClock
    /\ clock' = clock + 1
    /\ UNCHANGED <<value, toast, store, nsubmit, ev, store0, accepted, faulted>>
    /\ UNCHANGED <<normVars, valVars, tabVars, carVars>>

\* a submit event on form f, handled to its end
Submit(f) ==
    /\ nsubmit < MaxSubmits
    /\ \E fault \in Faults :
         LET r == SubmitHandler(f, value[f], toast[f], store, clock, fault)
         IN  /\ value' = [value EXCEPT ![f] = r.value]
             /\ toast' = [toast EXCEPT ![f] = r.toast]
             /\ store' = r.item
             /\ ev' = r.ev
             /\ accepted' =
                  IF r.ev.outcome = "accepted"
                  THEN Append(accepted, [obj |-> BuildObj(f, value[f]), at |-> clock])
                  ELSE accepted
             /\ faulted' = (faulted \/ r.ev.fault # "none")
    /\ nsubmit' = nsubmit + 1
    /\ UNCHANGED <<clock, store0>>
    /\ UNCHANGED <<normVars, valVars, tabVars, carVars>>

Next ==
    \/ \E f \in Forms : Fill(f)
    \/ \E f \in Forms : Submit(f)
    \/ Tick

Spec == Init /\ [][Next]_vars

(***************************************************************************)
(* Properties of the page.                                                 *)
(***************************************************************************)
\* a step that handles a submit event; ev' tells which form and what it did
SubmitStep == nsubmit' = nsubmit + 1

\* the trimmed values the submitting form holds when the event arrives
Submitted == BuildObj(ev'.form, value[ev'.form])

AllRulesOK(o) ==
    RuleNameOK(o) /\ RuleEmailOK(o) /\ RulePhoneOK(o) /\ RuleMessageOK(o)

\* whether the submitting form's trimmed values pass all four rules
SubmittedOK == LET o == Submitted IN AllRulesOK(o)

\* the stored sequence, an absent item counting as the empty sequence
SeqOf(item) == IF item.t = "array" THEN item.items ELSE << >>

(* C1: the stored item changes only in a submit whose trimmed values pass  *)
(* all four checks, and then by one record appended; a submit with a       *)
(* failed check leaves the stored item exactly as it was.                  *)
C1_PersistOnlyIfValid ==
    [][ /\ store' # store =>
              /\ SubmitStep
              /\ SubmittedOK
              /\ store'.t = "array"
              /\ Len(store'.items) = Len(SeqOf(store)) + 1
              /\ SubSeq(store'.items, 1, Len(SeqOf(store))) = SeqOf(store)
        /\ (SubmitStep /\ ~SubmittedOK) => store' = store
      ]_vars

\* a rejected submit has left alone the record an earlier submit appended
C1_Witness ==
    /\ ev.outcome = "rejected"
    /\ ev.errors = <<ErrMessage>>
    /\ store0 = Absent
    /\ store.t = "array" /\ Len(store.items) = 1
    /\ Len(accepted) = 1

Corrupt == {"garbage", "null", "object"}

(* C3 as stated: an accepted submit that finds the item absent or corrupt  *)
(* leaves the one-element sequence holding the new record, and nothing is  *)
(* thrown.                                                                 *)
C3_CorruptTreatedAsEmpty ==
    [][ (SubmitStep /\ ev'.fault = "none"
           /\ store.t \in {"absent", "empty"} \cup Corrupt /\ SubmittedOK)
        => (store' = TextOf("array", <<ev'.entry>>) /\ ~ev'.escaped)
      ]_vars

(* C3 amended: an accepted submit that finds the item absent (or the empty *)
(* text) leaves the one-element sequence holding the new record; one that  *)
(* finds a corrupt item (no JSON, or JSON that is no sequence) leaves the  *)
(* item exactly as it was; in both cases nothing is thrown and the success *)
(* text is shown.                                                          *)
C3_AbsentAppendsCorruptKept ==
    [][ (SubmitStep /\ ev'.fault = "none" /\ SubmittedOK)
        => /\ ~ev'.escaped
           /\ toast'[ev'.form] = SuccessToast
           /\ store.t \in {"absent", "empty"}
                => store' = TextOf("array", <<ev'.entry>>)
           /\ store.t \in Corrupt => store' = store
      ]_vars

\* an accepted submit over a corrupt item: success shown, item still corrupt
C3_Witness ==
    /\ ev.outcome = "accepted" /\ ev.fault = "none"
    /\ store0.t = "null" /\ store = store0
    /\ toast[ev.form] = SuccessToast

(* C4: when a submit passes validation and the storage read or write       *)
(* throws, nothing is thrown out of the handler, the stored item is as it  *)
(* was, and the handler shows the success status, resets the form and      *)
(* triggers the sparkles as on a successful write.                         *)
C4_StorageFailureStillSuccess ==
    [][ (SubmitStep /\ ev'.fault # "none" /\ SubmittedOK)
        => /\ ~ev'.escaped
           /\ ev'.outcome = "accepted"
           /\ store' = store
           /\ toast'[ev'.form] = SuccessToast
           /\ value'[ev'.form] = Defaults(ev'.form)
           /\ ev'.sparkles
      ]_vars

\* setItem threw in an accepted submit of form 1
C4_Witness ==
    /\ ev.outcome = "accepted" /\ ev.fault = "setItem" /\ ev.form = 1
    /\ faulted
    /\ store = store0 /\ store0.t = "array"
    /\ toast[1] = SuccessToast

\* the record an accepted submit is to leave: its trimmed fields plus the
\* time assigned to it
HoldsFieldsAndTime(rec, a) ==
    /\ DOMAIN rec = DOMAIN a.obj \cup {"submittedAt"}
    /\ \A k \in DOMAIN a.obj : rec[k] = a.obj[k]
    /\ rec["submittedAt"] = ToISOString(a.at)

(* C5: from an absent or valid stored sequence S and with working storage, *)
(* the stored sequence is S followed by one record per accepted submit, in *)
(* acceptance order, each holding the trimmed fields it was submitted with *)
(* plus the submittedAt assigned to it (so every earlier stored sequence   *)
(* is a prefix of every later one).                                        *)
C5_AppendOnlyRoundTrip ==
    (~faulted /\ store0.t \in {"absent", "array"}) =>
        LET S == SeqOf(store0)
            now == SeqOf(store)
        IN  /\ Len(now) = Len(S) + Len(accepted)
            /\ SubSeq(now, 1, Len(S)) = S
            /\ \A x \in DOMAIN accepted :
                  HoldsFieldsAndTime(now[Len(S) + x], accepted[x])

CharCode(c) == CHOOSE d \in DOMAIN Digits : Digits[d] = c

RECURSIVE StrLeq(_, _)
\* a <= b for two texts of digits, as JavaScript compares strings
StrLeq(a, b) ==
    IF a = << >> THEN TRUE
    ELSE IF b = << >> THEN FALSE
    ELSE IF Head(a) # Head(b) THEN CharCode(Head(a)) < CharCode(Head(b))
    ELSE StrLeq(Tail(a), Tail(b))

(* C6: of any two records appended in this page, the one appended later    *)
(* has a submittedAt greater than or equal to that of the earlier one.     *)
C6_SubmittedAtMonotone ==
    LET S == SeqOf(store0)
        now == SeqOf(store)
    IN  \A x, y \in (Len(S) + 1)..Len(now) :
            x < y => StrLeq(now[x]["submittedAt"], now[y]["submittedAt"])

AfterAppend(item, rec, fault) ==
    IF fault = "none" /\ item.t \in {"absent", "empty", "array"}
    THEN TextOf("array", Append(SeqOf(item), rec))
    ELSE item

Tabs == {1, 2}

\* the trimmed fields of the n-th accepted submit of tab t
TabObj(t, n) ==
    [name |-> <<"t", Digits[t + 1], Digits[n + 1]>>,
     email |-> <<"a", "@", "m", ".", "c", "o">>,
     phone |-> Rep("1", PhoneMin), instagram |-> << >>,
     message |-> Rep("x", MessageMin)]

InitTabs ==
    /\ store \in {s0 \in InitialStores : s0.t \in {"absent", "array"}}
    /\ store0 = store
    /\ tabpc = [t \in Tabs |-> "idle"]
    /\ tabAll = [t \in Tabs |-> << >>]
    /\ tabEntry = [t \in Tabs |-> NoEntry]
    /\ tabCount = [t \in Tabs |-> 0]
    /\ log = << >>
    /\ value = << >> /\ toast = << >> /\ clock = 0 /\ nsubmit = 0 /\ ev = << >>
    /\ accepted = << >> /\ faulted = FALSE
    /\ NormOff /\ ValOff /\ CarOff

\* tab t, in an accepted submit, parses the item and builds its entry
TabRead(t) ==
    /\ tabpc[t] = "idle"
    /\ tabCount[t] < MaxTabSubmits
    /\ LET all == ReadAll(store, "none")
           e   == Entry(clock, TabObj(t, tabCount[t] + 1))
       IN  /\ ~all.raised
           /\ tabAll' = [tabAll EXCEPT ![t] = all]
           /\ tabEntry' = [tabEntry EXCEPT ![t] = e]
           /\ log' = Append(log, [op |-> "read", tab |-> t, all |-> all.items,
                                  entry |-> e])
    /\ tabpc' = [tabpc EXCEPT ![t] = "saving"]
    /\ UNCHANGED <<store, store0, tabCount>>
    /\ UNCHANGED <<value, toast, clock, nsubmit, ev, accepted, faulted>>
    /\ UNCHANGED <<normVars, valVars, carVars>>

\* tab t pushes its entry onto what it parsed and writes the item
TabWrite(t) ==
    /\ tabpc[t] = "saving"
    /\ store' = WriteAll(store, tabAll[t], tabEntry[t], "none").item
    /\ log' = Append(log, [op |-> "write", tab |-> t, all |-> tabAll[t].items,
                           entry |-> tabEntry[t]])
    /\ tabpc' = [tabpc EXCEPT ![t] = "idle"]
    /\ tabCount' = [tabCount EXCEPT ![t] = @ + 1]
    /\ UNCHANGED <<store0, tabAll, tabEntry>>
    /\ UNCHANGED <<value, toast, clock, nsubmit, ev, accepted, faulted>>
    /\ UNCHANGED <<normVars, valVars, carVars>>

NextTabs == \E t \in Tabs : TabRead(t) \/ TabWrite(t)

SpecTabs == InitTabs /\ [][NextTabs]_vars

\* the entries written so far, in the order of the writes
RECURSIVE Written(_)
Written(l) ==
    IF l = << >> THEN << >>
    ELSE IF l[Len(l)].op = "write"
         THEN Append(Written(SubSeq(l, 1, Len(l) - 1)), l[Len(l)].entry)
         ELSE Written(SubSeq(l, 1, Len(l) - 1))

\* the last four accesses are the reads of both tabs, then the writes of both
BothReadThenBothWrote ==
    /\ Len(log) >= 4
    /\ LET n == Len(log) IN
         /\ log[n - 3].op = "read" /\ log[n - 2].op = "read"
         /\ log[n - 3].tab # log[n - 2].tab
         /\ log[n - 1].op = "write" /\ log[n].op = "write"

(* C8: appends from two tabs are last-write-wins: when both tabs read the  *)
(* stored sequence before either writes it back, the stored sequence is    *)
(* then the one written last, the commonly read sequence plus the last     *)
(* writer's record only; when a single tab is the only one to submit, its  *)
(* submits do not interleave and every accepted record is kept, in order.  *)
C8_LastWriteWins ==
    /\ BothReadThenBothWrote =>
         LET n == Len(log) IN
         /\ log[n - 3].all = log[n - 2].all
         /\ store = TextOf("array", Append(log[n - 2].all, log[n].entry))
         /\ \A x \in DOMAIN store.items : store.items[x] # log[n - 1].entry
    /\ \A t \in Tabs :
         (\A x \in DOMAIN log : log[x].tab = t) =>
            /\ \A x \in DOMAIN log :
                  (log[x].op = "write") => (x > 1 /\ log[x - 1].op = "read")
            /\ tabpc[t] = "idle" =>
                  SeqOf(store) = SeqOf(store0) \o Written(log)

\* both tabs read the one stored record, tab 1 wrote, then tab 2: two
\* records are stored, the old one and tab 2's
C8_Witness ==
    /\ BothReadThenBothWrote
    /\ Len(log) = 4
    /\ log[3].tab = 1 /\ log[4].tab = 2
    /\ Len(SeqOf(store0)) = 1
    /\ Len(SeqOf(store)) = 2
    /\ store.items[2]["name"] = <<"t", "2", "1">>

(***************************************************************************)
(* SpecCarousel: the testimonial carousel.                                 *)
(***************************************************************************)
\* idx = (i + total) % total
go(i) == (i + total) % total

InitCarousel ==
    /\ total \in 1..MaxCards        \* the setup returns when there is no card
    /\ idx = 0
    /\ autoplay = 1                 \* let autoplay = setInterval(...)
    /\ active = {1}
    /\ nextId = 2
    /\ inside \in BOOLEAN           \* the pointer may already be over the wrapper
    /\ entered = FALSE
    /\ tickInHover = FALSE
    /\ NormOff /\ ValOff /\ PageOff /\ TabsOff

\* wrapper.addEventListener('mouseenter', () => clearInterval(autoplay))
MouseEnter ==
    /\ ~inside
    /\ inside' = TRUE
    /\ entered' = TRUE
    /\ active' = active \ {autoplay}
    /\ UNCHANGED <<idx, total, autoplay, nextId, tickInHover>>
    /\ UNCHANGED <<normVars, valVars, pageVars, tabVars>>

\* mouseleave: autoplay = setInterval(() => { go(idx+1); }, 3500)
MouseLeave ==
    /\ inside
    /\ nextId <= MaxTimers
    /\ inside' = FALSE
    /\ entered' = FALSE
    /\ autoplay' = nextId
    /\ active' = active \cup {nextId}
    /\ nextId' = nextId + 1
    /\ UNCHANGED <<idx, total, tickInHover>>
    /\ UNCHANGED <<normVars, valVars, pageVars, tabVars>>

\* wrapper.addEventListener('click', () => go(idx+1))
Click ==
    /\ idx' = go(idx + 1)
    /\ UNCHANGED <<total, autoplay, active, nextId, inside, entered, tickInHover>>
    /\ UNCHANGED <<normVars, valVars, pageVars, tabVars>>

\* an interval that is set and not cleared fires: go(idx+1)
TimerTick ==
    /\ \E id \in active :
         /\ idx' = go(idx + 1)
         /\ tickInHover' = (tickInHover \/ (entered /\ idx' # idx))
    /\ UNCHANGED <<total, autoplay, active, nextId, inside, entered>>
    /\ UNCHANGED <<normVars, valVars, pageVars, tabVars>>

NextCarousel == MouseEnter \/ MouseLeave \/ Click \/ TimerTick

SpecCarousel == InitCarousel /\ [][NextCarousel]_vars

(* C10: the carousel pauses on hover: at most one autoplay interval is     *)
(* active at a time, no timer tick changes the current card between a      *)
(* mouseenter and the next mouseleave, and the index stays in              *)
(* 0..total-1.                                                             *)
C10_PausesOnHover ==
    /\ Cardinality(active) <= 1
    /\ ~tickInHover
    /\ idx \in 0..(total - 1)

====
